---- MODULE Spec2Model ----
(***************************************************************************)
(* Model of nolds/datasets.py: the chaotic map generators (tent_map,       *)
(* logistic_map), the Barabasi-1991 fractal builder and the fbm / fgn      *)
(* samplers.                                                               *)
(*                                                                         *)
(* Floats are modelled as exact rationals <<num, den>> (den > 0, lowest    *)
(* terms); rounding is not modelled.  The numerical linear algebra of fbm  *)
(* (eigh, inv, dot) is modelled by shape and by the sign of each           *)
(* eigenvalue; its numeric outcome is a nondeterministic choice.           *)
(***************************************************************************)
EXTENDS Integers, Sequences, FiniteSets, TLC

(* ------------------------------ bounds --------------------------------- *)

MaxSteps == 3
MaxSize == 27
MaxIter == 2
MaxN == 3
MaxCalls == 2

(* ------------------------- float arithmetic ---------------------------- *)

Abs(a) == IF a < 0 THEN -a ELSE a

RECURSIVE Gcd(_, _)
Gcd(a, b) == IF b = 0 THEN a ELSE Gcd(b, a % b)

Rat(n, d) ==
  LET s == IF d < 0 THEN -1 ELSE 1
      g == Gcd(Abs(n), Abs(d))
  IN  <<(s * n) \div g, (s * d) \div g>>

RAdd(p, q) == Rat(p[1] * q[2] + q[1] * p[2], p[2] * q[2])
RSub(p, q) == Rat(p[1] * q[2] - q[1] * p[2], p[2] * q[2])
RMul(p, q) == Rat(p[1] * q[1], p[2] * q[2])
RNeg(p) == <<-p[1], p[2]>>
RLt(p, q) == p[1] * q[2] < q[1] * p[2]

Half == <<1, 2>>
Zero == <<0, 1>>
One == <<1, 1>>

(* --------------------------- chaotic maps ------------------------------ *)

VARIABLES
  gen,      \* which generator function was called: "tent" or "logistic"
  gx0,      \* the argument x as passed by the caller
  steps,    \* the argument steps
  par,      \* the argument mu (tent) or r (logistic)
  x,        \* the local x of the generator frame
  i,        \* how many iterations of `for _ in range(steps)` have run
  out,      \* the values yielded so far
  gpc       \* "run" while the generator is suspended, "done" after it finished

mapvars == <<gen, gx0, steps, par, x, i, out, gpc>>

TentX0 == {<<0, 1>>, <<1, 10>>, <<1, 2>>, <<3, 4>>, <<1, 1>>, <<-1, 2>>, <<3, 2>>}
TentMu == {<<1, 1>>, <<2, 1>>, <<3, 2>>}
LogisticX0 == {<<0, 1>>, <<1, 2>>, <<1, 1>>}
LogisticR == {<<2, 1>>, <<3, 1>>, <<4, 1>>}

TentBranchLowSwapped(v) == RLt(Half, v)

\* x = mu * x if x < 0.5 else mu * (1 - x)
TentBranchLow(v) == RLt(v, Half)

tent_f(v, mu) ==
  IF TentBranchLow(v) THEN RMul(mu, v) ELSE RMul(mu, RSub(One, v))

\* x = r * x * (1 - x)
logistic_f(v, r) == RMul(RMul(r, v), RSub(One, v))

\* calling the generator function binds the arguments; no body code runs yet
MapsInit ==
  /\ gen \in {"tent", "logistic"}
  /\ steps \in 0..MaxSteps
  /\ gx0 \in (IF gen = "tent" THEN TentX0 ELSE LogisticX0)
  /\ par \in (IF gen = "tent" THEN TentMu ELSE LogisticR)
  /\ x = gx0
  /\ i = 0
  /\ out = <<>>
  /\ gpc = "run"

\* next() on a tent_map generator whose range(steps) is not exhausted
TentNext ==
  /\ gpc = "run" /\ gen = "tent" /\ i < steps
  /\ x' = tent_f(x, par)
  /\ out' = Append(out, x')
  /\ i' = i + 1
  /\ UNCHANGED <<gen, gx0, steps, par, gpc>>

\* next() on a logistic_map generator whose range(steps) is not exhausted
LogisticNext ==
  /\ gpc = "run" /\ gen = "logistic" /\ i < steps
  /\ x' = logistic_f(x, par)
  /\ out' = Append(out, x')
  /\ i' = i + 1
  /\ UNCHANGED <<gen, gx0, steps, par, gpc>>

\* next() once range(steps) is exhausted: the generator finishes
MapStop ==
  /\ gpc = "run" /\ i >= steps
  /\ gpc' = "done"
  /\ UNCHANGED <<gen, gx0, steps, par, x, i, out>>

(* ------------------------- Barabasi fractal ---------------------------- *)

VARIABLES
  size,            \* the argument size
  iterations,      \* the argument iterations
  b1, b2,          \* the arguments b1 and b2
  fractal,         \* the buffer `fractal` (index j of the array is fractal[j+1])
  intervals,       \* the list `intervals` of (x1, x2) pairs
  next_intervals,  \* the list `next_intervals`
  it,              \* how many rounds of `for _ in range(iterations)` are complete
  k,               \* position of the inner loop in `intervals` (1-based)
  call,            \* arguments <<x0, y0, w, h>> of the latest call of b1991
  d,               \* the local d: data returned by the latest call of b1991
  nxtp,            \* the local nxtp: points returned by the latest call of b1991
  minw,            \* the least width x2 - x1 handed to b1991 so far
  fpc              \* "outer", "inner", "done", or "IndexError"

fracvars == <<size, iterations, b1, b2, fractal, intervals, next_intervals,
              it, k, call, d, nxtp, minw, fpc>>

B1Set == {<<4, 5>>, <<1, 2>>}
B2Set == {<<1, 2>>, <<1, 4>>}

linspace_noend(start, stop, num) ==
  [j \in 1..num |-> RAdd(start, RMul(Rat(j - 1, num), RSub(stop, start)))]

\* np.linspace(start, stop, num): empty for num = 0, [start] for num = 1
linspace(start, stop, num) ==
  [j \in 1..num |->
     IF num = 1 THEN start
     ELSE RAdd(start, RMul(Rat(j - 1, num - 1), RSub(stop, start)))]

\* d[::-1]
Reversed(s) == [j \in 1..Len(s) |-> s[Len(s) + 1 - j]]

\* the quarter points x0, x1, x2, x3, x4 of b1991
QuarterPoints(x0, w) ==
  <<x0, x0 + (w \div 4), x0 + (w \div 2), (x0 + (w \div 2)) + (w \div 4), x0 + w>>

\* the array `data` that b1991 fills for h >= 0
b1991_data(x0, y0, w, h, pb1, pb2) ==
  LET q  == QuarterPoints(x0, w)
      n1 == q[2] - q[1]
      n2 == q[3] - q[2]
      n3 == q[4] - q[3]
      n4 == q[5] - q[4]
      r1 == linspace(Zero, One, n1)
      r2 == linspace(One, Zero, n2)
      r3 == linspace(Zero, One, n3)
      r4 == linspace(Zero, One, n4)
  IN  [j \in 1..w |->
        IF j <= n1 THEN RAdd(RMul(RMul(r1[j], pb1), h), y0)
        ELSE IF j <= n1 + n2 THEN RAdd(RMul(RMul(r2[j - n1], pb1), h), y0)
        ELSE IF j <= n1 + n2 + n3
          THEN RAdd(RMul(RMul(r3[j - n1 - n2], pb2), h), y0)
        ELSE RAdd(RAdd(RMul(RMul(r4[j - n1 - n2 - n3], RSub(One, pb2)), h), y0),
                  RMul(pb2, h))]

\* b1991(x0, y0, w, h): the pair (data, points); a segment with h < 0 is
\* computed for (y0 + h, -h) and its data reversed, its points kept
b1991(x0, y0, w, h, pb1, pb2) ==
  IF RLt(h, Zero)
  THEN <<Reversed(b1991_data(x0, RAdd(y0, h), w, RNeg(h), pb1, pb2)),
         QuarterPoints(x0, w)>>
  ELSE <<b1991_data(x0, y0, w, h, pb1, pb2), QuarterPoints(x0, w)>>

\* a[j] for a Python index j: negative indices count from the end
InRange(a, j) == -Len(a) <= j /\ j < Len(a)
At(a, j) == IF j < 0 THEN a[Len(a) + j + 1] ELSE a[j + 1]

\* fractal[x1:x2] = data
SliceAssign(a, x1, x2, data) ==
  [j \in 1..Len(a) |-> IF x1 < j /\ j <= x2 THEN data[j - x1] ELSE a[j]]

\* zip(nxtp[:-1], nxtp[1:])
ZipPairs(p) == [j \in 1..(Len(p) - 1) |-> <<p[j], p[j + 1]>>]

\* fractal = np.linspace(0, 1, size); intervals = [(0, size)]
FractalInit ==
  /\ size \in 0..MaxSize
  /\ iterations \in 0..MaxIter
  /\ b1 \in B1Set
  /\ b2 \in B2Set
  /\ fractal = linspace(Zero, One, size)
  /\ intervals = << <<0, size>> >>
  /\ next_intervals = <<>>
  /\ it = 0
  /\ k = 1
  /\ call = <<>>
  /\ d = <<>>
  /\ nxtp = <<>>
  /\ minw = size + 1
  /\ fpc = "outer"

\* one more round: next_intervals = []
RoundBegin ==
  /\ fpc = "outer" /\ it < iterations
  /\ next_intervals' = <<>>
  /\ k' = 1
  /\ fpc' = "inner"
  /\ UNCHANGED <<size, iterations, b1, b2, fractal, intervals, it, call, d,
                 nxtp, minw>>

\* loop body for one (x1, x2): subdivide the segment and write it back
Subdivide ==
  /\ fpc = "inner" /\ k <= Len(intervals)
  /\ LET x1 == intervals[k][1]
         x2 == intervals[k][2]
     IN  /\ InRange(fractal, x1) /\ InRange(fractal, x2 - 1)
         /\ LET y0 == At(fractal, x1)
                h  == RSub(At(fractal, x2 - 1), At(fractal, x1))
                r  == b1991(x1, y0, x2 - x1, h, b1, b2)
            IN  /\ call' = <<x1, y0, x2 - x1, h>>
                /\ d' = r[1]
                /\ nxtp' = r[2]
                /\ fractal' = SliceAssign(fractal, x1, x2, r[1])
                /\ next_intervals' = next_intervals \o ZipPairs(r[2])
                /\ minw' = IF x2 - x1 < minw THEN x2 - x1 ELSE minw
  /\ k' = k + 1
  /\ UNCHANGED <<size, iterations, b1, b2, intervals, it, fpc>>

\* loop body for one (x1, x2) when fractal[x1] or fractal[x2-1] is out of range
SubdivideIndexError ==
  /\ fpc = "inner" /\ k <= Len(intervals)
  /\ LET x1 == intervals[k][1]
         x2 == intervals[k][2]
     IN  ~(InRange(fractal, x1) /\ InRange(fractal, x2 - 1))
  /\ fpc' = "IndexError"
  /\ UNCHANGED <<size, iterations, b1, b2, fractal, intervals, next_intervals,
                 it, k, call, d, nxtp, minw>>

\* the inner loop is exhausted: intervals = next_intervals
RoundEnd ==
  /\ fpc = "inner" /\ k > Len(intervals)
  /\ intervals' = next_intervals
  /\ it' = it + 1
  /\ fpc' = "outer"
  /\ UNCHANGED <<size, iterations, b1, b2, fractal, next_intervals, k, call,
                 d, nxtp, minw>>

\* range(iterations) is exhausted: return fractal
FractalReturn ==
  /\ fpc = "outer" /\ it >= iterations
  /\ fpc' = "done"
  /\ UNCHANGED <<size, iterations, b1, b2, fractal, intervals, next_intervals,
                 it, k, call, d, nxtp, minw>>

(* ----------------------------- fbm / fgn ------------------------------- *)

VARIABLES
  fn,         \* the function the caller invoked: "fbm" or "fgn"
  n,          \* its argument n
  H,          \* its argument H
  fbm_calls,  \* the lengths fbm was called with during this invocation
  gamma,      \* shape <<rows, cols>> of the matrix gamma, <<>> before it is built
  w,          \* sign of each eigenvalue returned by eigh, ascending
  sigma,      \* <<rows, cols, nan>>: shape of sigma and whether it holds NaN
  v,          \* the vector drawn by np.random.randn
  res,        \* the value returned by fbm
  ret,        \* the value returned to the caller
  rng,        \* state of the global np.random generator: normals drawn so far
  ncalls,     \* invocations completed before this one
  bpc         \* the statement about to run, "done" or "AssertionError"

fbmvars == <<fn, n, H, fbm_calls, gamma, w, sigma, v, res, ret, rng, ncalls, bpc>>

HSet == {<<-1, 2>>, <<0, 1>>, <<1, 4>>, <<1, 2>>, <<3, 4>>, <<1, 1>>, <<3, 2>>}
Signs == {-1, 0, 1}
Vals == {<<0, 1>>, <<1, 1>>}
NaN == <<0, 0>>
Seed == 0

HurstOkClosed(h) == RLt(Zero, h) /\ ~RLt(One, h)

\* assert H > 0 and H < 1
HurstOk(h) == RLt(Zero, h) /\ RLt(h, One)

FgnLengthSame(m) == m

\* fgn calls fbm(n+1, H=H)
FgnLength(m) == m + 1

\* the length fbm runs with
fbm_n == fbm_calls[Len(fbm_calls)]

\* np.linalg.eigh returns its eigenvalues in ascending order.  gamma is
\* [[0]] for n = 1 and diag(0, 1) for n = 2, whose eigenvalues are exact; from
\* n = 3 on the largest eigenvalue is positive and rounding decides the sign
\* of the others (gamma is singular: its row and column 0 are zero)
EighSigns(m) ==
  IF m <= 2 THEN {[j \in 1..m |-> j - 1]}
  ELSE {s \in [1..m -> Signs] :
          /\ \A j \in 1..(m - 1) : s[j] <= s[j + 1]
          /\ s[m] = 1}

\* np.sqrt of an eigenvalue: NaN for a negative one
sqrt_nan(s) == s < 0

\* np.random.randn(m) on generator state g: the next m normals of the stream,
\* each named by its position in the stream, and the state that follows
randn(g, m) == <<[j \in 1..m |-> g + j], g + m>>

\* a - b on floats
FSub(a, b) == IF a = NaN \/ b = NaN THEN NaN ELSE <<a[1] - b[1], 1>>

\* np.diff(a)
np_diff(a) == [j \in 1..(Len(a) - 1) |-> FSub(a[j + 1], a[j])]

FbmLocalsFresh ==
  /\ fbm_calls = <<>>
  /\ gamma = <<>>
  /\ w = <<>>
  /\ sigma = <<>>
  /\ v = <<>>
  /\ res = <<>>
  /\ ret = <<>>

\* the first invocation of fbm or fgn in a fresh interpreter
FbmInit ==
  /\ fn \in {"fbm", "fgn"}
  /\ n \in 1..MaxN
  /\ H \in HSet
  /\ FbmLocalsFresh
  /\ rng = Seed
  /\ ncalls = 0
  /\ bpc = "call"

\* fgn evaluates fbm(n+1, H=H) / the caller evaluates fbm(n, H): fbm is entered
EnterFbm ==
  /\ bpc = "call"
  /\ fbm_calls' = Append(fbm_calls, IF fn = "fgn" THEN FgnLength(n) ELSE n)
  /\ bpc' = "assert"
  /\ UNCHANGED <<fn, n, H, gamma, w, sigma, v, res, ret, rng, ncalls>>

\* assert H > 0 and H < 1
AssertHurst ==
  /\ bpc = "assert"
  /\ bpc' = IF HurstOk(H) THEN "gamma" ELSE "AssertionError"
  /\ UNCHANGED <<fn, n, H, fbm_calls, gamma, w, sigma, v, res, ret, rng, ncalls>>

\* gamma = R(*np.mgrid[0:n, 0:n])
BuildGamma ==
  /\ bpc = "gamma"
  /\ gamma' = <<fbm_n, fbm_n>>
  /\ bpc' = "eigh"
  /\ UNCHANGED <<fn, n, H, fbm_calls, w, sigma, v, res, ret, rng, ncalls>>

\* w, P = np.linalg.eigh(gamma)
Eigh ==
  /\ bpc = "eigh"
  /\ w' \in EighSigns(gamma[1])
  /\ bpc' = "sigma"
  /\ UNCHANGED <<fn, n, H, fbm_calls, gamma, sigma, v, res, ret, rng, ncalls>>

\* L = np.diag(w); sigma = np.dot(np.dot(P, np.sqrt(L)), np.linalg.inv(P))
BuildSigma ==
  /\ bpc = "sigma"
  /\ sigma' = <<gamma[1], gamma[2], \E j \in 1..Len(w) : sqrt_nan(w[j])>>
  /\ bpc' = "randn"
  /\ UNCHANGED <<fn, n, H, fbm_calls, gamma, w, v, res, ret, rng, ncalls>>

\* v = np.random.randn(n)
DrawNoise ==
  /\ bpc = "randn"
  /\ v' = randn(rng, fbm_n)[1]
  /\ rng' = randn(rng, fbm_n)[2]
  /\ bpc' = "dot"
  /\ UNCHANGED <<fn, n, H, fbm_calls, gamma, w, sigma, res, ret, ncalls>>

\* return np.dot(sigma, v): one float per row of sigma, NaN if sigma holds NaN
FbmReturn ==
  /\ bpc = "dot"
  /\ sigma[2] = Len(v)
  /\ res' \in (IF sigma[3] THEN {[j \in 1..sigma[1] |-> NaN]}
               ELSE [1..sigma[1] -> Vals])
  /\ IF fn = "fgn"
     THEN bpc' = "diff" /\ ret' = ret
     ELSE bpc' = "done" /\ ret' = res'
  /\ UNCHANGED <<fn, n, H, fbm_calls, gamma, w, sigma, v, rng, ncalls>>

\* return np.diff(...)
FgnReturn ==
  /\ bpc = "diff"
  /\ ret' = np_diff(res)
  /\ bpc' = "done"
  /\ UNCHANGED <<fn, n, H, fbm_calls, gamma, w, sigma, v, res, rng, ncalls>>

\* the caller invokes fbm or fgn again: the frames of the finished invocation
\* are gone, the module-level generator of np.random is not
NextInvocation ==
  /\ bpc \in {"done", "AssertionError"}
  /\ ncalls + 1 < MaxCalls
  /\ ncalls' = ncalls + 1
  /\ fn' \in {"fbm", "fgn"}
  /\ n' \in 1..MaxN
  /\ H' \in HSet
  /\ fbm_calls' = <<>>
  /\ gamma' = <<>>
  /\ w' = <<>>
  /\ sigma' = <<>>
  /\ v' = <<>>
  /\ res' = <<>>
  /\ ret' = <<>>
  /\ bpc' = "call"
  /\ UNCHANGED rng

(* --------------------------- specifications ---------------------------- *)

vars == <<mapvars, fracvars, fbmvars>>

\* the parts of the module that an invocation does not touch
MapsIdle ==
  /\ gen = "tent" /\ gx0 = Zero /\ steps = 0 /\ par = One /\ x = Zero
  /\ i = 0 /\ out = <<>> /\ gpc = "idle"

FractalIdle ==
  /\ size = 0 /\ iterations = 0 /\ b1 = Half /\ b2 = Half /\ fractal = <<>>
  /\ intervals = <<>> /\ next_intervals = <<>> /\ it = 0 /\ k = 1
  /\ call = <<>> /\ d = <<>> /\ nxtp = <<>> /\ minw = 0 /\ fpc = "idle"

FbmIdle ==
  /\ fn = "fbm" /\ n = 0 /\ H = Half /\ FbmLocalsFresh /\ rng = Seed
  /\ ncalls = 0 /\ bpc = "idle"

InitMaps == MapsInit /\ FractalIdle /\ FbmIdle
NextMaps ==
  \/ TentNext /\ UNCHANGED <<fracvars, fbmvars>>
  \/ LogisticNext /\ UNCHANGED <<fracvars, fbmvars>>
  \/ MapStop /\ UNCHANGED <<fracvars, fbmvars>>
SpecMaps == InitMaps /\ [][NextMaps]_vars

InitFractal == FractalInit /\ MapsIdle /\ FbmIdle
NextFractal ==
  \/ RoundBegin /\ UNCHANGED <<mapvars, fbmvars>>
  \/ Subdivide /\ UNCHANGED <<mapvars, fbmvars>>
  \/ SubdivideIndexError /\ UNCHANGED <<mapvars, fbmvars>>
  \/ RoundEnd /\ UNCHANGED <<mapvars, fbmvars>>
  \/ FractalReturn /\ UNCHANGED <<mapvars, fbmvars>>
SpecFractal == InitFractal /\ [][NextFractal]_vars

InitFbm == FbmInit /\ MapsIdle /\ FractalIdle
NextFbm ==
  \/ EnterFbm /\ UNCHANGED <<mapvars, fracvars>>
  \/ AssertHurst /\ UNCHANGED <<mapvars, fracvars>>
  \/ BuildGamma /\ UNCHANGED <<mapvars, fracvars>>
  \/ Eigh /\ UNCHANGED <<mapvars, fracvars>>
  \/ BuildSigma /\ UNCHANGED <<mapvars, fracvars>>
  \/ DrawNoise /\ UNCHANGED <<mapvars, fracvars>>
  \/ FbmReturn /\ UNCHANGED <<mapvars, fracvars>>
  \/ FgnReturn /\ UNCHANGED <<mapvars, fracvars>>
  \/ NextInvocation /\ UNCHANGED <<mapvars, fracvars>>
SpecFbm == InitFbm /\ [][NextFbm]_vars

(* ------------------------------- claims -------------------------------- *)

\* the transition functions as the specification states them
TentRule(u, mu) ==
  IF 2 * u[1] < u[2] THEN Rat(mu[1] * u[1], mu[2] * u[2])
  ELSE Rat(mu[1] * (u[2] - u[1]), mu[2] * u[2])

LogisticRule(u, r) == Rat(r[1] * u[1] * (u[2] - u[1]), r[2] * u[2] * u[2])

RECURSIVE Iterate(_, _, _, _)
Iterate(g, u, p, m) ==
  IF m = 0 THEN u
  ELSE LET prev == Iterate(g, u, p, m - 1)
       IN  IF g = "tent" THEN TentRule(prev, p) ELSE LogisticRule(prev, p)

\* C1: tent_map and logistic_map emit one value per iteration, never more than
\* `steps`; the k-th value emitted is the transition function applied k times
\* to x0 (so x0 itself is not emitted); a finished generator has emitted
\* exactly `steps` values.
C1_ExactlyStepsIterates ==
  gpc \in {"run", "done"} =>
    /\ Len(out) = i
    /\ i <= steps
    /\ \A m \in 1..Len(out) : out[m] = Iterate(gen, gx0, par, m)
    /\ (gpc = "done" => Len(out) = steps)

C1_Witness ==
  /\ gpc = "done" /\ gen = "tent" /\ gx0 = <<1, 10>> /\ par = <<2, 1>>
  /\ steps >= 3
  /\ out[1] = <<1, 5>> /\ out[2] = <<2, 5>> /\ out[3] = <<4, 5>>

\* C2: subdividing a segment [x0, x4) of width >= 4 leaves the buffer values
\* at x0 and at x4-1 as they were; when only such segments were subdivided the
\* returned series starts at 0 and ends at 1.
C2_EndpointsKept ==
  /\ [][(fpc = "inner" /\ k' = k + 1 /\ call'[3] >= 4) =>
          /\ At(fractal', call'[1]) = At(fractal, call'[1])
          /\ At(fractal', call'[1] + call'[3] - 1)
               = At(fractal, call'[1] + call'[3] - 1)]_vars
  /\ []((fpc = "done" /\ size >= 2 /\ (Len(call) = 4 => minw >= 4)) =>
          fractal[1] = Zero /\ fractal[size] = One)

\* C3: barabasi1991_fractal never returns a series after a round subdivided a
\* segment of width below 4.
C3_DegenerateRejected ==
  (fpc = "done" /\ Len(call) = 4) => minw >= 4

\* C4: asked for zero elements, every generator returns an empty sequence
\* without raising: tent_map / logistic_map with steps = 0, and
\* barabasi1991_fractal with size = 0 for any iterations >= 0.
C4_ZeroElementsEmpty ==
  /\ (gpc = "done" /\ steps = 0) => out = <<>>
  /\ (fpc # "idle" /\ size = 0) =>
       /\ fpc # "IndexError"
       /\ (fpc = "done" => fractal = <<>>)

\* a ramp from a to b in s over the offsets p+1 .. p+len
RampStart(s, p, len, a) == len >= 1 => s[p + 1] = a
RampEnd(s, p, len, b) == len >= 1 => s[p + len] = b
RampLinear(s, p, len, a, b) ==
  len >= 2 => \A j \in 1..len :
                s[p + j] = RAdd(a, RMul(Rat(j - 1, len - 1), RSub(b, a)))

SegY0 == call[2]
SegH == call[4]
SegTop1 == RAdd(SegY0, RMul(b1, SegH))
SegTop2 == RAdd(SegY0, RMul(b2, SegH))
SegEnd == RAdd(SegY0, SegH)
SegAscending == Len(call) = 4 /\ call[3] >= 4 /\ ~RLt(SegH, Zero)
RampLen(m) == nxtp[m + 1] - nxtp[m]
RampOff(m) == nxtp[m] - nxtp[1]

EquallySpaced(a, x1, x2) ==
  \A j \in (x1 + 1)..(x2 - 2) :
    RSub(a[j + 1], a[j]) = RSub(a[j + 2], a[j + 1])

\* C10: after every round in which all subdivided segments had width >= 4,
\* every interval of the segment list spans values that are equally spaced
\* (one linear ramp), also where the parent segment was descending.
C10_IntervalsAreRamps ==
  (fpc = "outer" /\ it >= 1 /\ minw >= 4) =>
    \A m \in 1..Len(intervals) :
      EquallySpaced(fractal, intervals[m][1], intervals[m][2])

BadHurst == ~RLt(Zero, H) \/ ~RLt(H, One)

\* C5: with H <= 0 or H >= 1, fbm and fgn end in the assertion error of fbm's
\* first statement: the invocation never gets past it, gamma is never built
\* and np.random is never drawn from.
C5_RejectBeforeComputation ==
  /\ []((bpc # "idle" /\ BadHurst) =>
          /\ bpc \in {"call", "assert", "AssertionError"}
          /\ gamma = <<>> /\ w = <<>> /\ sigma = <<>> /\ v = <<>>
          /\ res = <<>> /\ ret = <<>>)
  /\ [][(bpc = "assert" /\ BadHurst) => bpc' = "AssertionError"]_vars
  /\ [][(bpc # "idle" /\ BadHurst) => rng' = rng]_vars

C5_Witness ==
  /\ bpc = "AssertionError" /\ fn = "fgn" /\ H = One /\ gamma = <<>>
  /\ v = <<>> /\ fbm_calls = <<n + 1>>

\* C6: for n > 0 and 0 < H < 1, fgn(n, H) calls fbm once, with length n+1, and
\* returns the n first differences of what that call returned; fbm(n, H)
\* returns n values.
C6_FgnIsDiffOfFbm ==
  (bpc = "done" /\ n > 0) =>
    /\ ~BadHurst
    /\ Len(ret) = n
    /\ fn = "fbm" => fbm_calls = <<n>> /\ ret = res
    /\ fn = "fgn" =>
         /\ fbm_calls = <<n + 1>>
         /\ Len(res) = n + 1
         /\ \A j \in 1..n : ret[j] = FSub(res[j + 1], res[j])

C6_Witness ==
  /\ bpc = "done" /\ fn = "fgn" /\ n = 2
  /\ res = << <<0, 1>>, <<1, 1>>, <<0, 1>> >>
  /\ ret = << <<1, 1>>, <<-1, 1>> >>

\* C7: the vector an fbm call draws is what a generator of its own, starting
\* from the seed, would give it: it does not depend on the invocations of
\* fbm / fgn that ran before.
C7_DrawIndependentOfHistory ==
  Len(v) > 0 => v = randn(Seed, Len(v))[1]

\* C9: fbm never takes the square root of a negative eigenvalue, and the
\* series it returns holds no NaN.
C9_NoNegativeSqrtNoNaN ==
  /\ Len(sigma) = 3 => \A j \in 1..Len(w) : w[j] >= 0
  /\ \A j \in 1..Len(ret) : ret[j] # NaN

====
